---- MODULE Spec2Model ----
(***************************************************************************)
(* A model of package logger (simetnicbr/tools-go): the logWrapper facade  *)
(* over logrus.  The state is the Go heap of field maps, the facades       *)
(* (Level, Depth, Context, ContextMutex), the goroutines calling the       *)
(* facades, and the sequence of calls that reached logrus (the Sink).      *)
(*                                                                         *)
(* Go strings are sequences of one-character strings; every value stored   *)
(* in a field map is such a sequence, and <<>> marks a key that is absent. *)
(***************************************************************************)
EXTENDS Integers, Sequences, FiniteSets, TLC

(***************************************************************************)
(* Bound of the model: the calls and environment writes of one run.        *)
(***************************************************************************)
MaxCalls == 2

(***************************************************************************)
(* logrus.Level: the lower the number, the more severe.                    *)
(***************************************************************************)
FatalLevel == 1

ErrorLevel == 2

WarnLevel == 3

InfoLevel == 4

DebugLevel == 5

Facades == {"f1", "f2"}

Procs == {"p1", "p2"}

Keys == {"a", "b", "file", "metadata"}

Absent == <<>>

\* the nil map reference
Nil == 0

\* heap address of the map the caller passes to WithFields as initial fields
InitialFields == 1

NoFacade == [Level |-> -1, Depth |-> 0, Context |-> Nil]

EmptyMap == [k \in Keys |-> Absent]

\* make(map[string]interface{}) / make(Fields): a new, empty map on the heap
make(h) == Append(h, EmptyMap)

\* The field maps callers pass to AddFields and WithFields.
FieldArgs ==
  { EmptyMap,
    [EmptyMap EXCEPT !["a"] = <<"2">>, !["b"] = <<"2">>],
    [EmptyMap EXCEPT !["b"] = <<"1">>, !["file"] = <<"1">>] }

KeysOf(m) == {k \in Keys : m[k] # Absent}

\* The level strings callers pass to New and WithFields.
LevelArgs == {"debug", "info", "warning", "error", "verbose"}

DepthArgs == {1, 2, 3}

EmitMethods == {"Fatal", "Error", "Warning", "Info", "Debug"}

(***************************************************************************)
(* fmt: %v / %d of an int, and Sprintf over a template of tokens.          *)
(***************************************************************************)
Digit(n) == <<"0", "1", "2", "3", "4", "5", "6", "7", "8", "9">>[n + 1]

RECURSIVE Itoa(_)
Itoa(n) == IF n < 10 THEN <<Digit(n)>> ELSE Itoa(n \div 10) \o <<Digit(n % 10)>>

\* fmt.Sprintf(f, msg...): f is a sequence of characters in which "%" stands
\* for one verb (%d, %v); each verb takes the next argument.
RECURSIVE Sprintf(_, _)
Sprintf(f, msg) ==
  IF f = <<>> THEN <<>>
  ELSE IF Head(f) = "%"
       THEN IF msg = <<>>
            THEN <<"%", "!", "(", "M", "I", "S", "S", "I", "N", "G", ")">> \o Sprintf(Tail(f), msg)
            ELSE Itoa(Head(msg)) \o Sprintf(Tail(f), Tail(msg))
       ELSE <<Head(f)>> \o Sprintf(Tail(f), msg)

(***************************************************************************)
(* strings.Split(filepath, "/")                                            *)
(***************************************************************************)
RECURSIVE Split(_, _)
Split(s, sep) ==
  IF s = <<>> THEN << <<>> >>
  ELSE IF Head(s) = sep
       THEN << <<>> >> \o Split(Tail(s), sep)
       ELSE LET rest == Split(Tail(s), sep)
            IN  << <<Head(s)>> \o Head(rest) >> \o Tail(rest)

(***************************************************************************)
(* runtime.Caller(skip) on a goroutine's stack, innermost frame first.     *)
(* Outside the stack it reports ok = false with an empty path and line 0.  *)
(***************************************************************************)
Frame(path, line) == [path |-> path, line |-> line]

LoggerGo == <<"/", "l", "/", "g">>

Caller_Clamped(stack, skip) ==
  IF skip >= 0 /\ skip + 1 <= Len(stack) THEN stack[skip + 1] ELSE stack[Len(stack)]

Caller(stack, skip) ==
  IF skip >= 0 /\ skip + 1 <= Len(stack) THEN stack[skip + 1] ELSE Frame(<<>>, 0)

\* The frames of the code calling an emit method, innermost first.  p1 calls
\* the logger from a function of the program; p2 stands for goroutines started
\* on a logger method itself (go l.Info(...)), which has no calling frame.
UserStack(p) ==
  IF p = "p1"
  THEN << Frame(<<"/", "s", "/", "c", "/", "m">>, 7), Frame(<<"w">>, 12) >>
  ELSE << >>

UserStacks == {UserStack(p) : p \in Procs}

\* the line of each emit method that calls l.file()
FileCallLine(m) ==
  CASE m = "Fatal" -> 130
    [] m = "Warning" -> 139
    [] m = "Info" -> 148
    [] m = "Debug" -> 157
    [] m = "Error" -> 166

\* the stack while l.file() runs runtime.Caller, for emit method m
StackIn(m, user) == <<Frame(LoggerGo, 171), Frame(LoggerGo, FileCallLine(m))>> \o user

file_WholePath(l, stack) ==
  LET fr == Caller(stack, l.Depth)
  IN  <<"[">> \o fr.path \o <<" ", "-", " ">> \o Itoa(fr.line) \o <<"]">>

\* logWrapper.file()
file(l, stack) ==
  LET fr == Caller(stack, l.Depth)
      tokens == Split(fr.path, "/")
      n == Len(tokens)
      name == IF n >= 2 THEN tokens[n - 1] \o <<"/">> \o tokens[n] ELSE tokens[n]
  IN  <<"[">> \o name \o <<" ", "-", " ">> \o Itoa(fr.line) \o <<"]">>

(***************************************************************************)
(* newLogger, New, WithFields                                              *)
(***************************************************************************)
LevelOf(lvl) ==
  CASE lvl = "debug" -> DebugLevel
    [] lvl = "warning" -> WarnLevel
    [] lvl = "info" -> InfoLevel
    [] OTHER -> InfoLevel

newLogger(lvl, f) == [Level |-> LevelOf(lvl), Depth |-> 2, Context |-> f]

\* the level each emit method compares l.Level with
MethodLevel(m) ==
  CASE m = "Fatal" -> FatalLevel
    [] m = "Warning" -> WarnLevel
    [] m = "Info" -> InfoLevel
    [] m = "Debug" -> DebugLevel
    [] m = "Error" -> ErrorLevel

Gated_Inverted(l, m) == l.Level > MethodLevel(m)

Gated_Never(l, m) == FALSE

\* the early return of every emit method
Gated(l, m) == l.Level < MethodLevel(m)

\* the logrus entry method each emit method ends in
SinkMethod(m) ==
  CASE m = "Fatal" -> "Fatal"
    [] m = "Warning" -> "Warning"
    [] m = "Info" -> "Info"
    [] m = "Debug" -> "Debug"
    [] m = "Error" -> "Error"

\* the format and arguments of the calls made
Template == <<"y", "=", "%">>

TemplateArgs == <<7>>

VARIABLES
  heap,      \* the field maps allocated so far; a map's address is its index
  facade,    \* facade[f]: the logWrapper behind Logger f, or NoFacade
  mutex,     \* mutex[f]: ContextMutex of f: the writer and the readers holding it
  pc,        \* pc[p]: where goroutine p is in its current call
  call,      \* call[p]: the receiver copy, arguments and locals of p's call
  sink,      \* the calls that reached logrus, in order, each with the method
             \* (op) and the caller's frames (site) of the call that made it
  halt,      \* "run", or how the process ended: "exit" (Fatal), "throw" (runtime)
  ncalls,    \* calls started so far
  ret,       \* ret[p]: how p's last finished call ended
  window     \* window[p]: the values l.Context took while p's range loop ran

vars == <<heap, facade, mutex, pc, call, sink, halt, ncalls, ret, window>>

NoCall == [op |-> "none", fac |-> "f1", l |-> NoFacade, arg |-> EmptyMap, todo |-> {}, fields |-> Nil]

FreeMutex == [w |-> "none", r |-> {}]

\* the contents of the map at address ref (ranging over a nil map yields nothing)
Content(ref, h) == IF ref = Nil THEN EmptyMap ELSE h[ref]

Built == {f \in Facades : facade[f] # NoFacade}

\* window follows l.Context for every goroutine inside the range loop of
\* getThreadsafeCopyOfFields, from RLock to RUnlock
Track ==
  window' = [q \in Procs |->
               IF pc'[q] = "copy_loop"
               THEN (IF pc[q] = "copy_loop" THEN window[q] ELSE {})
                      \cup {Content(call'[q].l.Context, heap')}
               ELSE {}]

InitialMaps == {[EmptyMap EXCEPT !["a"] = <<"1">>]}

Init ==
  /\ heap \in {<<m>> : m \in InitialMaps}
  /\ facade = [f \in Facades |-> NoFacade]
  /\ mutex = [f \in Facades |-> FreeMutex]
  /\ pc = [p \in Procs |-> "idle"]
  /\ call = [p \in Procs |-> NoCall]
  /\ sink = <<>>
  /\ halt = "run"
  /\ ncalls = 0
  /\ ret = [p \in Procs |-> "none"]
  /\ window = [p \in Procs |-> {}]

\* The facades are interchangeable: f1 is built first, and of two facades f1 is
\* the one whose Context comes first in the order nil, the caller's map, a map
\* of its own.
Rank(l) == IF l.Context > InitialFields THEN InitialFields + 1 ELSE l.Context

\* Facades are built before the goroutines start calling them; the program
\* has one log level, which every facade it builds is given.
CanBuild(f, l) ==
  /\ halt = "run"
  /\ facade[f] = NoFacade
  /\ ncalls = 0
  /\ f = "f2" => /\ facade["f1"] # NoFacade
                 /\ facade["f1"].Level = l.Level
                 /\ Rank(facade["f1"]) <= Rank(l)

New(f, level) ==
  /\ CanBuild(f, newLogger(level, Len(heap) + 1))
  /\ heap' = make(heap)
  /\ facade' = [facade EXCEPT ![f] = newLogger(level, Len(heap) + 1)]
  /\ UNCHANGED <<mutex, pc, call, sink, halt, ncalls, ret, window>>

WithFields(f, level, fields) ==
  /\ CanBuild(f, newLogger(level, fields))
  /\ facade' = [facade EXCEPT ![f] = newLogger(level, fields)]
  /\ UNCHANGED <<heap, mutex, pc, call, sink, halt, ncalls, ret, window>>

\* p calls a method of facade f: the value receiver copies the logWrapper;
\* the goroutines are interchangeable, and p1 makes the first call
CanCall(p, f) ==
  /\ halt = "run"
  /\ pc[p] = "idle"
  /\ facade[f] # NoFacade
  /\ ncalls < MaxCalls
  /\ p = "p2" => ncalls >= 1

(***************************************************************************)
(* SetDepth: the receiver is a value, so the assignment lands in the copy. *)
(***************************************************************************)
SetDepth(p, f, d) ==
  /\ CanCall(p, f)
  /\ LET l == [facade[f] EXCEPT !.Depth = d]
     IN  facade' = facade
  /\ ncalls' = ncalls + 1
  /\ ret' = [ret EXCEPT ![p] = "none"]
  /\ UNCHANGED <<heap, mutex, pc, call, sink, halt, window>>

(***************************************************************************)
(* AddFields: Lock, one map assignment per key of f, deferred Unlock.      *)
(***************************************************************************)
\* the call, and l.ContextMutex.Lock(): it returns at once when the mutex is
\* free, and otherwise the goroutine waits in Lock
AddFields(p, f, arg) ==
  /\ CanCall(p, f)
  /\ IF mutex[f] = FreeMutex
     THEN /\ mutex' = [mutex EXCEPT ![f].w = p]
          /\ pc' = [pc EXCEPT ![p] = "add_loop"]
     ELSE /\ pc' = [pc EXCEPT ![p] = "add_lock"]
          /\ UNCHANGED mutex
  /\ call' = [call EXCEPT ![p] = [NoCall EXCEPT !.op = "AddFields", !.fac = f,
                                   !.l = facade[f], !.arg = arg, !.todo = KeysOf(arg)]]
  /\ ncalls' = ncalls + 1
  /\ ret' = [ret EXCEPT ![p] = "none"]
  /\ UNCHANGED <<heap, facade, sink, halt>>
  /\ Track

\* a goroutine waiting in l.ContextMutex.Lock() gets the mutex
AddLock(p) ==
  /\ halt = "run"
  /\ pc[p] = "add_lock"
  /\ mutex[call[p].fac] = FreeMutex
  /\ mutex' = [mutex EXCEPT ![call[p].fac].w = p]
  /\ pc' = [pc EXCEPT ![p] = "add_loop"]
  /\ UNCHANGED <<heap, facade, call, sink, halt, ncalls, ret>>
  /\ Track

\* l.Context[k] = v; an assignment to an entry of a nil map panics, and the
\* deferred Unlock runs while the panic unwinds
AddWrite(p, k) ==
  /\ halt = "run"
  /\ pc[p] = "add_loop"
  /\ k \in call[p].todo
  /\ IF call[p].l.Context = Nil
     THEN /\ mutex' = [mutex EXCEPT ![call[p].fac].w = "none"]
          /\ pc' = [pc EXCEPT ![p] = "panicked"]
          /\ call' = [call EXCEPT ![p] = NoCall]
          /\ ret' = [ret EXCEPT ![p] = "panic"]
          /\ UNCHANGED heap
     ELSE /\ heap' = [heap EXCEPT ![call[p].l.Context][k] = call[p].arg[k]]
          /\ call' = [call EXCEPT ![p].todo = @ \ {k}]
          /\ UNCHANGED <<mutex, pc, ret>>
  /\ UNCHANGED <<facade, sink, halt, ncalls>>
  /\ Track

\* the loop is over: deferred l.ContextMutex.Unlock(), return
AddUnlock(p) ==
  /\ halt = "run"
  /\ pc[p] = "add_loop"
  /\ call[p].todo = {}
  /\ mutex' = [mutex EXCEPT ![call[p].fac].w = "none"]
  /\ pc' = [pc EXCEPT ![p] = "idle"]
  /\ call' = [call EXCEPT ![p] = NoCall]
  /\ UNCHANGED ret
  /\ UNCHANGED <<heap, facade, sink, halt, ncalls>>
  /\ Track

(***************************************************************************)
(* The emit methods Fatal, Error, Warning, Info, Debug.                    *)
(***************************************************************************)
copiedFields_Alias(l, h) == IF l.Context = Nil THEN Len(h) + 1 ELSE l.Context

\* copiedFields := make(Fields): the address of the map getThreadsafeCopyOfFields
\* fills and returns
copiedFields(l, h) == Len(h) + 1

\* the call, the level test, then make(Fields) and l.ContextMutex.RLock() in
\* getThreadsafeCopyOfFields: RLock returns at once when no writer holds the
\* mutex, and otherwise the goroutine waits in RLock
Emit(p, f, m) ==
  /\ CanCall(p, f)
  /\ ncalls' = ncalls + 1
  /\ IF Gated(facade[f], m)
     THEN /\ ret' = [ret EXCEPT ![p] = "gated"]
          /\ UNCHANGED <<heap, mutex, pc, call>>
     ELSE /\ heap' = make(heap)
          /\ IF mutex[f].w = "none"
             THEN /\ mutex' = [mutex EXCEPT ![f].r = @ \cup {p}]
                  /\ pc' = [pc EXCEPT ![p] = "copy_loop"]
             ELSE /\ pc' = [pc EXCEPT ![p] = "copy_lock"]
                  /\ UNCHANGED mutex
          /\ call' = [call EXCEPT ![p] = [NoCall EXCEPT !.op = m, !.fac = f,
                                            !.l = facade[f], !.todo = Keys,
                                            !.fields = copiedFields(facade[f], heap)]]
          /\ ret' = [ret EXCEPT ![p] = "none"]
  /\ UNCHANGED <<facade, sink, halt>>
  /\ Track

\* a goroutine waiting in l.ContextMutex.RLock() gets the mutex
CopyRLock(p) ==
  /\ halt = "run"
  /\ pc[p] = "copy_lock"
  /\ mutex[call[p].fac].w = "none"
  /\ mutex' = [mutex EXCEPT ![call[p].fac].r = @ \cup {p}]
  /\ pc' = [pc EXCEPT ![p] = "copy_loop"]
  /\ UNCHANGED <<heap, facade, call, sink, halt, ncalls, ret>>
  /\ Track

\* the entries of l.Context the range loop has not produced yet
Pending(p) == call[p].todo \cap KeysOf(Content(call[p].l.Context, heap))

\* one iteration of  for k, v := range l.Context { copiedFields[k] = v }
CopyRead(p, k) ==
  /\ halt = "run"
  /\ pc[p] = "copy_loop"
  /\ k \in Pending(p)
  /\ heap' = [heap EXCEPT ![call[p].fields][k] = heap[call[p].l.Context][k]]
  /\ call' = [call EXCEPT ![p].todo = @ \ {k}]
  /\ UNCHANGED <<facade, mutex, pc, sink, halt, ncalls, ret>>
  /\ Track

CopyRUnlock_KeepsLock(p, user) ==
  /\ halt = "run"
  /\ pc[p] = "copy_loop"
  /\ user = UserStack(p)
  /\ Pending(p) = {}
  /\ UNCHANGED mutex
  /\ heap' = [heap EXCEPT ![call[p].fields]["file"] =
                file(call[p].l, StackIn(call[p].op, user))]
  /\ call' = [call EXCEPT ![p].todo = {}]
  /\ pc' = [pc EXCEPT ![p] = "sink"]
  /\ UNCHANGED <<facade, sink, halt, ncalls, ret>>
  /\ Track

\* the loop is over: deferred l.ContextMutex.RUnlock(), return copiedFields;
\* then fields["file"] = l.file(), which reads only the goroutine's own stack
CopyRUnlock(p, user) ==
  /\ halt = "run"
  /\ pc[p] = "copy_loop"
  /\ user = UserStack(p)
  /\ Pending(p) = {}
  /\ mutex' = [mutex EXCEPT ![call[p].fac].r = @ \ {p}]
  /\ heap' = [heap EXCEPT ![call[p].fields]["file"] =
                file(call[p].l, StackIn(call[p].op, user))]
  /\ call' = [call EXCEPT ![p].todo = {}]
  /\ pc' = [pc EXCEPT ![p] = "sink"]
  /\ UNCHANGED <<facade, sink, halt, ncalls, ret>>
  /\ Track

Log_Front(p) ==
  /\ halt = "run"
  /\ pc[p] = "sink"
  /\ sink' = <<[fac |-> call[p].fac, op |-> call[p].op, site |-> UserStack(p),
                           method |-> SinkMethod(call[p].op),
                msg |-> Sprintf(Template, TemplateArgs),
                fields |-> call[p].fields, by |-> p]>> \o sink
  /\ halt' = IF SinkMethod(call[p].op) = "Fatal" THEN "exit" ELSE "run"
  /\ pc' = [pc EXCEPT ![p] = "idle"]
  /\ call' = [call EXCEPT ![p] = NoCall]
  /\ UNCHANGED ret
  /\ UNCHANGED <<heap, facade, mutex, ncalls>>
  /\ Track

Log_ExitFirst(p) ==
  /\ halt = "run"
  /\ pc[p] = "sink"
  /\ sink' = IF SinkMethod(call[p].op) = "Fatal" THEN sink
             ELSE Append(sink, [fac |-> call[p].fac, op |-> call[p].op, site |-> UserStack(p),
                           method |-> SinkMethod(call[p].op),
                                msg |-> Sprintf(Template, TemplateArgs),
                                fields |-> call[p].fields, by |-> p])
  /\ halt' = IF SinkMethod(call[p].op) = "Fatal" THEN "exit" ELSE "run"
  /\ pc' = [pc EXCEPT ![p] = "idle"]
  /\ call' = [call EXCEPT ![p] = NoCall]
  /\ UNCHANGED ret
  /\ UNCHANGED <<heap, facade, mutex, ncalls>>
  /\ Track

\* l.Logger.WithFields(fields).<Method>(fmt.Sprintf(f, msg...)); logrus ends
\* the process after a Fatal entry
Log(p) ==
  /\ halt = "run"
  /\ pc[p] = "sink"
  /\ sink' = Append(sink, [fac |-> call[p].fac, op |-> call[p].op, site |-> UserStack(p),
                           method |-> SinkMethod(call[p].op),
                           msg |-> Sprintf(Template, TemplateArgs),
                           fields |-> call[p].fields, by |-> p])
  /\ halt' = IF SinkMethod(call[p].op) = "Fatal" THEN "exit" ELSE "run"
  /\ pc' = [pc EXCEPT ![p] = "idle"]
  /\ call' = [call EXCEPT ![p] = NoCall]
  /\ UNCHANGED ret
  /\ UNCHANGED <<heap, facade, mutex, ncalls>>
  /\ Track

(***************************************************************************)
(* The environment: logrus keeps the map it was given and may write to it; *)
(* the caller of WithFields keeps its map and may write to it.             *)
(***************************************************************************)
SinkVal == <<"x">>

MutKeys == {"a"}

SinkMutate(i, k) ==
  /\ halt = "run"
  /\ ncalls < MaxCalls
  /\ i \in 1..Len(sink)
  /\ sink[i].fields # Nil
  /\ heap[sink[i].fields][k] # SinkVal
  /\ heap' = [heap EXCEPT ![sink[i].fields][k] = SinkVal]
  /\ ncalls' = ncalls + 1
  /\ UNCHANGED <<facade, mutex, pc, call, sink, halt, ret>>
  /\ Track

CallerVals == {<<"2">>}

CallerMutate(k, v) ==
  /\ halt = "run"
  /\ ncalls < MaxCalls
  /\ \E f \in Facades : facade[f] # NoFacade /\ facade[f].Context = InitialFields
  /\ heap[InitialFields][k] # v
  /\ heap' = [heap EXCEPT ![InitialFields][k] = v]
  /\ ncalls' = ncalls + 1
  /\ UNCHANGED <<facade, mutex, pc, call, sink, halt, ret>>
  /\ Track

(***************************************************************************)
(* Unsynchronized access to one map: goroutines inside the loops of        *)
(* AddFields and getThreadsafeCopyOfFields on the same map, one writing.   *)
(* The Go runtime may end the process (concurrent map read and map write). *)
(***************************************************************************)
Writing(p) == pc[p] = "add_loop" /\ call[p].arg # EmptyMap /\ call[p].l.Context # Nil

Reading(p) == pc[p] = "copy_loop" /\ call[p].l.Context # Nil

Overlap(p, q) ==
  /\ p # q
  /\ Writing(p)
  /\ Writing(q) \/ Reading(q)
  /\ call[p].l.Context = call[q].l.Context

Throw ==
  /\ halt = "run"
  /\ \E p, q \in Procs : Overlap(p, q)
  /\ halt' = "throw"
  /\ UNCHANGED <<heap, facade, mutex, pc, call, sink, ncalls, ret, window>>

Next ==
  \/ \E f \in Facades, level \in LevelArgs : New(f, level)
  \/ \E f \in Facades, level \in LevelArgs, fields \in {Nil, InitialFields} :
        WithFields(f, level, fields)
  \/ \E p \in Procs, f \in Facades, d \in DepthArgs : SetDepth(p, f, d)
  \/ \E p \in Procs, f \in Facades, arg \in FieldArgs : AddFields(p, f, arg)
  \/ \E p \in Procs : AddLock(p)
  \/ \E p \in Procs, k \in Keys : AddWrite(p, k)
  \/ \E p \in Procs : AddUnlock(p)
  \/ \E p \in Procs, f \in Facades, m \in EmitMethods : Emit(p, f, m)
  \/ \E p \in Procs : CopyRLock(p)
  \/ \E p \in Procs, k \in Keys : CopyRead(p, k)
  \/ \E p \in Procs, user \in UserStacks : CopyRUnlock(p, user)
  \/ \E p \in Procs : Log(p)
  \/ \E i \in 1..MaxCalls, k \in MutKeys : SinkMutate(i, k)
  \/ \E k \in MutKeys, v \in CallerVals : CallerMutate(k, v)
  \/ Throw

Spec == Init /\ [][Next]_vars

(***************************************************************************)
(* The early revision of the package: a logWrapper of Logger and Depth,     *)
(* with Warning, Info, Debug and their m (field map) and f (format)         *)
(* variants.  It keeps no context and takes no lock: a call is one step.    *)
(***************************************************************************)
EarlyDepth == 2

EarlyMethods ==
  {"Warning", "Info", "Debug", "Warningm", "Infom", "Debugm", "Warningf", "Infof", "Debugf"}

MapMethods == {"Warningm", "Infom", "Debugm"}

FormatMethods == {"Warningf", "Infof", "Debugf"}

\* the line of each early method that calls prefix() or metadata()
EarlyCallLine(m) ==
  CASE m = "Warning" -> 67
    [] m = "Info" -> 73
    [] m = "Debug" -> 79
    [] m = "Warningm" -> 85
    [] m = "Infom" -> 90
    [] m = "Debugm" -> 95
    [] m = "Warningf" -> 100
    [] m = "Infof" -> 106
    [] m = "Debugf" -> 112

\* the stack while prefix() or metadata() runs runtime.Caller, for method m
EarlyStackIn(m, user) ==
  <<Frame(LoggerGo, IF m \in MapMethods THEN 130 ELSE 118),
    Frame(LoggerGo, EarlyCallLine(m))>> \o user

\* The frames of the code calling an early method.
EarlyStacks ==
  { << Frame(<<"/", "s", "/", "c", "/", "m">>, 7) >>,
    << Frame(<<"c", "/", "m">>, 3) >>,
    << Frame(<<"w">>, 12) >> }

\* fmt.Sprint(m...) of ints: a space between operands
RECURSIVE Sprint(_)
Sprint(msg) ==
  IF msg = <<>> THEN <<>>
  ELSE Itoa(Head(msg)) \o (IF Tail(msg) = <<>> THEN <<>> ELSE <<" ">>) \o Sprint(Tail(msg))

\* logWrapper.prefix(msg) of the early revision
prefix(depth, stack, msg) ==
  LET fr == Caller(stack, depth)
      tokens == Split(fr.path, "/")
      n == Len(tokens)
      name == IF n >= 2 THEN tokens[n - 1] \o <<"/">> \o tokens[n] ELSE tokens[n]
  IN  <<"{">> \o name \o <<":", " ">> \o Itoa(fr.line) \o <<"}", " ">> \o msg

\* logWrapper.metadata() of the early revision
metadata(depth, stack) ==
  LET fr == Caller(stack, depth)
      tokens == Split(fr.path, "/")
      n == Len(tokens)
      name == IF n >= 2 THEN tokens[n - 1] \o <<"/">> \o tokens[n] ELSE tokens[n]
  IN  <<"[">> \o name \o <<" ", "-", " ">> \o Itoa(fr.line) \o <<"]">>

EarlySinkMethod_Generic(m) ==
  CASE m = "Warning" -> "Warning"
    [] m = "Info" -> "Info"
    [] m = "Debug" -> "Debug"
    [] m = "Warningm" -> "Warning"
    [] m = "Infom" -> "Info"
    [] m = "Debugm" -> "Debug"
    [] m = "Warningf" -> "Warningf"
    [] m = "Infof" -> "Info"
    [] m = "Debugf" -> "Printf"

\* the logrus method each early method ends in
EarlySinkMethod(m) ==
  CASE m = "Warning" -> "Warning"
    [] m = "Info" -> "Info"
    [] m = "Debug" -> "Debug"
    [] m = "Warningm" -> "Warning"
    [] m = "Infom" -> "Info"
    [] m = "Debugm" -> "Debug"
    [] m = "Warningf" -> "Warningf"
    [] m = "Infof" -> "Info"
    [] m = "Debugf" -> "Debug"

\* the message the early method m passes to logrus
EarlyMsg(m, stack) ==
  CASE m \in MapMethods -> <<>>
    [] m \in FormatMethods -> prefix(EarlyDepth, stack, Sprintf(Template, TemplateArgs))
    [] OTHER -> prefix(EarlyDepth, stack, Sprint(TemplateArgs))

\* what logrus makes of the message: Warningf takes it as a format
SinkMsg(method, msg) == IF method = "Warningf" THEN Sprintf(msg, <<>>) ELSE msg

\* a program links one revision of the package: it calls the early one only
\* when it has built no facade of the current one
CanCallEarly(p) ==
  /\ halt = "run"
  /\ Built = {}
  /\ pc[p] = "idle"
  /\ ncalls < MaxCalls
  /\ p = "p2" => ncalls >= 1

\* p calls method m of the early revision; an m method is given the caller's
\* map, sets m["metadata"] in it and hands that very map to logrus
EarlyEmit(p, m, arg, user) ==
  /\ CanCallEarly(p)
  /\ m \notin MapMethods => arg = EmptyMap
  /\ heap' = IF m \in MapMethods
             THEN Append(heap, [arg EXCEPT !["metadata"] =
                                  metadata(EarlyDepth, EarlyStackIn(m, user))])
             ELSE heap
  /\ sink' = Append(sink, [fac |-> "early", op |-> m, site |-> user,
                           method |-> EarlySinkMethod(m),
                           msg |-> SinkMsg(EarlySinkMethod(m),
                                           EarlyMsg(m, EarlyStackIn(m, user))),
                           fields |-> IF m \in MapMethods THEN Len(heap) + 1 ELSE Nil,
                           by |-> p])
  /\ ncalls' = ncalls + 1
  /\ ret' = [ret EXCEPT ![p] = "none"]
  /\ UNCHANGED <<facade, mutex, pc, call, halt>>
  /\ Track

\* SetDepth of the early revision: a value receiver as well
EarlySetDepth(p, d) ==
  /\ CanCallEarly(p)
  /\ LET l == [Depth |-> d]
     IN  ncalls' = ncalls + 1
  /\ ret' = [ret EXCEPT ![p] = "none"]
  /\ UNCHANGED <<heap, facade, mutex, pc, call, sink, halt, window>>

\* the goroutines that can call the early revision now
EarlyCallers == {p \in Procs : CanCallEarly(p)}

EarlyNext ==
  \/ \E p \in EarlyCallers, m \in EarlyMethods, arg \in FieldArgs, user \in EarlyStacks :
        EarlyEmit(p, m, arg, user)
  \/ \E p \in EarlyCallers, d \in DepthArgs : EarlySetDepth(p, d)

\* the programs that use either revision of the package
Revisions == Init /\ [][Next \/ EarlyNext]_vars

\* the steps goroutine p takes inside a call it has started
Step(p) ==
  \/ AddLock(p)
  \/ \E k \in Keys : AddWrite(p, k)
  \/ AddUnlock(p)
  \/ CopyRLock(p)
  \/ \E k \in Keys : CopyRead(p, k)
  \/ \E user \in UserStacks : CopyRUnlock(p, user)
  \/ Log(p)

\* the Go scheduler runs every goroutine that can run
FairSpec == Spec /\ \A p \in Procs : WF_vars(Step(p))

(***************************************************************************)
(* The severities of the specification: Debug < Info < Warning < Error <   *)
(* Fatal, and the minimum severity a facade is configured with.            *)
(***************************************************************************)
Severity(m) ==
  CASE m = "Debug" -> 1
    [] m = "Info" -> 2
    [] m = "Warning" -> 3
    [] m = "Error" -> 4
    [] m = "Fatal" -> 5

MinSeverity(l) ==
  CASE l.Level = DebugLevel -> 1
    [] l.Level = InfoLevel -> 2
    [] l.Level = WarnLevel -> 3
    [] l.Level = ErrorLevel -> 4
    [] OTHER -> 5

Ctx(f, h) == Content(facade[f].Context, h)

Delivered == {sink[i].fields : i \in 1..Len(sink)}

\* C1: an emit call (Debug, Info, Warning, Error) whose severity is below the
\* facade's minimum severity returns at once: the sink receives no call and the
\* context map of every facade is as it was.
C1_BelowMinimumEmitsNothing ==
  [][\A p \in Procs, f \in Facades, m \in {"Debug", "Info", "Warning", "Error"} :
       (Emit(p, f, m) /\ Severity(m) < MinSeverity(facade[f]))
         => /\ sink' = sink
            /\ pc'[p] = "idle"
            /\ \A g \in Facades : Ctx(g, heap') = Ctx(g, heap)]_vars

\* a goroutine's last call was an emit cut short by the level test, after an
\* earlier emit reached the sink and an AddFields changed a context
C1_Witness ==
  \E p \in Procs, f \in Built :
    /\ ret[p] = "gated"
    /\ pc[p] = "idle"
    /\ \/ sink # <<>>
       \/ Ctx(f, heap) \notin InitialMaps \cup {EmptyMap}

\* C2: an emit call at or above the minimum severity makes exactly one sink
\* call, and the map it hands over is the context map as it stood at one
\* instant while the call copied it, with "file" set to the resolved call site.
C2_EmitDeliversContextPlusFile ==
  [][\A p \in Procs :
       /\ (pc[p] = "copy_loop" /\ pc'[p] = "sink")
            => \E c \in window[p], user \in UserStacks :
                 heap'[call[p].fields] =
                   [c EXCEPT !["file"] = file(call[p].l, StackIn(call[p].op, user))]
       /\ (pc[p] = "sink" /\ pc'[p] # "sink")
            => /\ Len(sink') = Len(sink) + 1
               /\ sink'[Len(sink')].fields = call[p].fields
               /\ heap'[call[p].fields] = heap[call[p].fields]]_vars

\* the level the specification gives each level string
ClaimedLevel(lvl) ==
  CASE lvl = "debug" -> DebugLevel
    [] lvl = "info" -> InfoLevel
    [] lvl = "warning" -> WarnLevel
    [] lvl = "error" -> ErrorLevel
    [] OTHER -> InfoLevel

\* C3: New and WithFields with level "debug", "info", "warning" or "error" build
\* a facade whose minimum severity is that one; any other string gives Info.
C3_LevelStringSetsMinimum ==
  [][\A f \in Facades, lvl \in LevelArgs :
       (New(f, lvl) \/ \E fields \in {Nil, InitialFields} : WithFields(f, lvl, fields))
         => facade'[f].Level = ClaimedLevel(lvl)]_vars

\* C4: the map handed to the sink is not the facade's context map: a write of
\* the sink to a delivered map changes no facade's context, and a write of
\* AddFields changes no delivered map.
C4_DeliveredMapIsDistinct ==
  [][/\ \A i \in 1..Len(sink), k \in MutKeys :
          SinkMutate(i, k) => \A f \in Built : Ctx(f, heap') = Ctx(f, heap)
     /\ \A p \in Procs, k \in Keys :
          AddWrite(p, k) => \A id \in Delivered : heap'[id] = heap[id]]_vars

\* a delivered map and the context of the facade that delivered it have come to
\* differ on a context key: one of them was written after the delivery
C4_Witness ==
  \E i \in 1..Len(sink), k \in Keys \ {"file"} :
    heap[sink[i].fields][k] # Ctx(sink[i].fac, heap)[k]

\* C5: AddFields(f) overwrites: when a call ends, the context maps every key of
\* f to f's value; a write of AddFields changes no other key, and no key is
\* ever removed from a context.
C5_AddFieldsOverwrites ==
  [][/\ \A p \in Procs :
          (pc[p] = "add_loop" /\ pc'[p] # "add_loop")
            => \A k \in KeysOf(call[p].arg) :
                 Content(call[p].l.Context, heap')[k] = call[p].arg[k]
     /\ \A p \in Procs, k \in Keys :
          AddWrite(p, k)
            => \A j \in Keys \ {k} :
                 Content(call[p].l.Context, heap')[j] = Content(call[p].l.Context, heap)[j]
     /\ \A f \in Built, k \in Keys :
          Ctx(f, heap)[k] # Absent => Ctx(f, heap')[k] # Absent]_vars

\* the facade keeps a map of its own: no other facade and no caller holds it
OwnsContext(l) == l.Context # InitialFields

\* C6: concurrent AddFields and emit calls on one facade lose no update and
\* never panic: no call ends in a panic, and when an AddFields call returns,
\* every key it wrote holds its value or the value of another AddFields call
\* on the facade.
C6_NoLostUpdateNoPanic ==
  [][\A p \in Procs :
       /\ pc'[p] # "panicked"
       /\ (AddUnlock(p) /\ OwnsContext(call[p].l))
            => \A k \in KeysOf(call[p].arg) :
                 heap[call[p].l.Context][k] \in {a[k] : a \in FieldArgs} \ {Absent}]_vars

\* C7: every write to a context map is made under the exclusive lock of its
\* facade and every read under the shared lock, and no write to a context map
\* overlaps a read or another write of the same map.
C7_NoOverlappingAccess ==
  /\ \A p \in Procs : Writing(p) => mutex[call[p].fac].w = p
  /\ \A p \in Procs : Reading(p) => p \in mutex[call[p].fac].r
  /\ \A p, q \in Procs : ~Overlap(p, q)

\* C8: WithFields stores a copy of initialFields: a write of AddFields never
\* changes the caller's map, and a write of the caller to its map never changes
\* the context of a facade.
C8_WithFieldsCopiesInitialFields ==
  [][/\ \A p \in Procs, k \in Keys :
          AddWrite(p, k) => heap'[InitialFields] = heap[InitialFields]
     /\ \A k \in MutKeys, v \in CallerVals :
          CallerMutate(k, v) => \A f \in Built : Ctx(f, heap') = Ctx(f, heap)]_vars

\* C9: AddFields on one facade never changes the context of another facade.
C9_AddFieldsLeavesOtherFacades ==
  [][\A p \in Procs, k \in Keys :
       AddWrite(p, k)
         => \A g \in Built \ {call[p].fac} : Ctx(g, heap') = Ctx(g, heap)]_vars

\* C10: a new facade resolves the call site at depth 2, and after SetDepth(d)
\* the facade's depth, which file() passes to runtime.Caller, is d.
C10_SetDepthSetsDepth ==
  [][/\ \A f \in Facades :
          (facade[f] = NoFacade /\ facade'[f] # NoFacade) => facade'[f].Depth = 2
     /\ \A p \in Procs, f \in Facades, d \in DepthArgs :
          SetDepth(p, f, d) => facade'[f].Depth = d]_vars

\* C11: the fast path: an emit call whose severity is below the facade's minimum
\* returns in its first step, whoever holds the context lock: it takes no lock
\* and waits for none, allocates and copies no map, resolves no call site and
\* formats no message (no map changes, nothing reaches the sink).
C11_FastPathTakesNoLock ==
  [][\A p \in Procs, f \in Facades, m \in EmitMethods :
       (Emit(p, f, m) /\ Severity(m) < MinSeverity(facade[f]))
         => /\ pc'[p] = "idle"
            /\ mutex' = mutex
            /\ heap' = heap
            /\ call' = call
            /\ sink' = sink]_vars

\* a gated emit on the only facade has returned while another goroutine is
\* inside AddFields of that facade, holding the exclusive lock
C11_Witness ==
  \E p, q \in Procs :
    /\ Built = {"f1"}
    /\ ret[p] = "gated"
    /\ pc[p] = "idle"
    /\ pc[q] = "add_loop"
    /\ mutex["f1"].w = q

\* C12: Fatal is emitted whatever the facade's minimum severity: a Fatal call is
\* never cut short by the level test, and the process exits only in the step in
\* which the sink receives that call's Fatal entry, with the formatted message
\* and the call's copied fields carrying the call site under "file".
C12_FatalEmitsBeforeExit ==
  [][/\ \A p \in Procs, f \in Facades :
          Emit(p, f, "Fatal") => pc'[p] \in {"copy_loop", "copy_lock"}
     /\ \A p \in Procs :
          (pc[p] = "sink" /\ call[p].op = "Fatal" /\ pc'[p] # "sink")
            => /\ halt' = "exit"
               /\ Len(sink') = Len(sink) + 1
               /\ SubSeq(sink', 1, Len(sink)) = sink
               /\ sink'[Len(sink')].method = "Fatal"
               /\ sink'[Len(sink')].msg = Sprintf(Template, TemplateArgs)
               /\ sink'[Len(sink')].fields = call[p].fields
               /\ \E user \in UserStacks :
                    heap'[call[p].fields]["file"] = file(call[p].l, StackIn("Fatal", user))
     /\ (halt = "run" /\ halt' = "exit")
          => /\ Len(sink') = Len(sink) + 1
             /\ sink'[Len(sink')].method = "Fatal"]_vars

\* the process has exited on a Fatal call of a facade whose minimum is Warning,
\* and the entry the sink received last is that call's, with the context key
\* "a" and the call site in its fields
C12_Witness ==
  /\ halt = "exit"
  /\ sink # <<>>
  /\ sink[Len(sink)].method = "Fatal"
  /\ facade[sink[Len(sink)].fac].Level = WarnLevel
  /\ heap[sink[Len(sink)].fields]["a"] # Absent
  /\ heap[sink[Len(sink)].fields]["file"] # Absent

\* the depth of the call in progress of p is beyond the frames of p's stack
Unresolved(p) == call[p].l.Depth >= Len(StackIn(call[p].op, UserStack(p)))

\* what file() returns for the empty path and line 0 that runtime.Caller reports
\* when it has no frame
Placeholder == <<"[", " ", "-", " ", "0", "]">>

\* C13: when the facade's depth is beyond the caller's frames, the emit call
\* does not abort: file() yields the placeholder, which the call stores under
\* "file", and the call then makes exactly one sink call with that map.
C13_UnresolvedCallSiteStillLogs ==
  [][\A p \in Procs :
       /\ (pc[p] = "copy_loop" /\ Unresolved(p) /\ Pending(p) = {} /\ pc'[p] # "copy_loop")
            => /\ pc'[p] = "sink"
               /\ heap'[call[p].fields]["file"] = Placeholder
       /\ (pc[p] = "sink" /\ Unresolved(p) /\ pc'[p] # "sink")
            => /\ pc'[p] = "idle"
               /\ Len(sink') = Len(sink) + 1
               /\ sink'[Len(sink')].fields = call[p].fields
               /\ sink'[Len(sink')].by = p
               /\ heap'[call[p].fields]["file"] = Placeholder]_vars

\* the sink has received an entry whose "file" is the placeholder, next to the
\* context key "a"
C13_Witness ==
  \E i \in 1..Len(sink) :
    /\ heap[sink[i].fields]["file"] = Placeholder
    /\ heap[sink[i].fields]["a"] # Absent
    /\ pc[sink[i].by] = "idle"

C15_NoSinkCallUnderLock ==
  \A p \in Procs :
    pc[p] = "sink" => \A f \in Facades : p \notin mutex[f].r /\ mutex[f].w # p

\* while one goroutine is at its sink call, another is inside AddFields of the
\* same facade, holding the exclusive lock
C15_Witness ==
  \E p, q \in Procs :
    /\ pc[p] = "sink"
    /\ pc[q] = "add_loop"
    /\ call[q].fac = call[p].fac
    /\ mutex[call[p].fac].w = q

\* p is inside a call other than Fatal
InCall(p) == pc[p] \notin {"idle", "panicked"} /\ call[p].op # "Fatal"

\* C16: under fair scheduling every started AddFields call and every started
\* emit call other than Fatal returns, unless a Fatal call has ended the
\* process; and whenever no call is in progress every context lock is free.
C16_EveryCallReturns ==
  /\ \A p \in Procs : InCall(p) ~> (pc[p] = "idle" \/ halt = "exit")
  /\ []((\A p \in Procs : pc[p] \in {"idle", "panicked"})
           => \A f \in Facades : mutex[f] = FreeMutex)

\* C17: a snapshot is atomic: apart from "file", the map an emit call has copied
\* when it leaves getThreadsafeCopyOfFields equals the context map as it stood
\* at one instant while the call copied it, so never old values of some keys
\* next to new values of others.
C17_SnapshotIsOneInstant ==
  [][\A p \in Procs :
       (pc[p] = "copy_loop" /\ pc'[p] = "sink")
         => \E c \in window[p] :
              \A k \in Keys \ {"file"} : heap'[call[p].fields][k] = c[k]]_vars

\* the facade WithFields built from no initial map: newLogger stored nil
FromNil(l) == l # NoFacade /\ l.Context = Nil

\* C18: a facade built by WithFields with no initial map has an empty context:
\* its emits copy no key, and AddFields with a non-empty map does not crash
\* and stores every key it writes in the facade's context.
C18_NilInitialFieldsIsEmptyContext ==
  [][/\ \A f \in Facades, lvl \in LevelArgs :
          WithFields(f, lvl, Nil) => Ctx(f, heap') = EmptyMap
     /\ \A p \in Procs :
          (pc[p] = "copy_loop" /\ FromNil(call[p].l)) => Pending(p) = {}
     /\ \A p \in Procs, k \in Keys :
          (AddWrite(p, k) /\ FromNil(call[p].l))
            => /\ pc'[p] = "add_loop"
               /\ Ctx(call[p].fac, heap')[k] = call[p].arg[k]]_vars

\* the severity at which logrus logs an entry made by each of its methods
SinkSeverity(method) ==
  CASE method = "Debug" -> 1
    [] method = "Info" -> 2
    [] method = "Printf" -> 2
    [] method = "Warning" -> 3
    [] method = "Warningf" -> 3
    [] method = "Error" -> 4
    [] method = "Fatal" -> 5

\* the severity an early method is named after
EarlySeverity(m) ==
  CASE m \in {"Debug", "Debugm", "Debugf"} -> 1
    [] m \in {"Info", "Infom", "Infof"} -> 2
    [] m \in {"Warning", "Warningm", "Warningf"} -> 3

\* C19: every emit method hands its entry to the sink method of its own
\* severity: Fatal, Error, Warning, Info and Debug of the current revision, and
\* the plain, m and f variants of Warning, Info and Debug of the early one.
C19_EachMethodReachesOwnSeverity ==
  \A i \in 1..Len(sink) :
    SinkSeverity(sink[i].method) =
      IF sink[i].fac = "early" THEN EarlySeverity(sink[i].op) ELSE Severity(sink[i].op)

\* the sink has received the entries of an early Warningf call and of an early
\* Debugf call, whose message is the prefixed format result
C19_Witness ==
  \E i, j \in 1..Len(sink) :
    /\ sink[i].fac = "early"
    /\ sink[i].method = "Warningf"
    /\ sink[j].fac = "early"
    /\ sink[j].method = "Debug"
    /\ \E user \in EarlyStacks :
         sink[j].msg = prefix(EarlyDepth, EarlyStackIn("Debugf", user),
                              Sprintf(Template, TemplateArgs))

\* x occurs in s as a run of consecutive characters
Occurs(x, s) == \E i \in 1..(Len(s) - Len(x) + 1) : SubSeq(s, i, i + Len(x) - 1) = x

\* "[d/f - n]" for the last two segments d, f of the frame's path, "[f - n]" for
\* a path of one segment
TwoSegments(fr) ==
  LET seg == Split(fr.path, "/")
      n == Len(seg)
  IN  IF n >= 2
      THEN <<"[">> \o seg[n - 1] \o <<"/">> \o seg[n] \o <<" ", "-", " ">> \o Itoa(fr.line) \o <<"]">>
      ELSE <<"[">> \o seg[1] \o <<" ", "-", " ">> \o Itoa(fr.line) \o <<"]">>

\* no segment before the last two occurs in the location
NoEarlierSegment(fr, loc) ==
  LET seg == Split(fr.path, "/")
  IN  \A j \in 1..(Len(seg) - 2) : seg[j] # <<>> => ~Occurs(seg[j], loc)

\* the location an entry of the sink carries: "file" in the current revision,
\* "metadata" in the m methods of the early one
Location(r) == heap[r.fields][IF r.fac = "early" THEN "metadata" ELSE "file"]

\* C20: for a resolved caller frame with path p and line n, file() (and
\* metadata() of the early revision) returns "[d/f - n]" with the last two
\* segments of p split on "/", or "[f - n]" when p is one segment, and no
\* earlier segment of p occurs in it.
C20_LocationIsLastTwoSegments ==
  \A i \in 1..Len(sink) :
    (sink[i].fields # Nil /\ sink[i].site # <<>>)
      => /\ Location(sink[i]) = TwoSegments(sink[i].site[1])
         /\ NoEarlierSegment(sink[i].site[1], Location(sink[i]))

\* the sink holds two entries of early m methods, one called from a file whose
\* path is one segment and one from a path of four segments
C20_Witness ==
  \E i, j \in 1..Len(sink) :
    /\ sink[i].op \in MapMethods
    /\ sink[j].op \in MapMethods
    /\ sink[i].site # <<>>
    /\ sink[j].site # <<>>
    /\ Len(Split(sink[i].site[1].path, "/")) = 1
    /\ Len(Split(sink[j].site[1].path, "/")) = 4
    /\ Location(sink[i]) # Location(sink[j])

====
